---- MODULE Spec2Model ----
(***************************************************************************)
(* A model of src/src/kairosDB.ts: the read-only client ReadOnlyKairosDB   *)
(* (getMetricNames, getMetricTags, read, createSimpleRequest, readCount,   *)
(* readCountLong) and the read-write client KairosDB (deleteMetric, write, *)
(* delete).  The server is the environment: it stores data points at       *)
(* timestamps 0..MaxNow and each fetch draws one reply from the replies    *)
(* the server can give.  One operation runs at a time (the client has no   *)
(* internal parallelism); readCountLong is the only operation that spans   *)
(* several steps, one per window.                                          *)
(*                                                                         *)
(* The file holds two copies of the classes (lines 1-266 and 268-507).     *)
(* The model follows the first; the second differs in read, which throws   *)
(* obj.errors itself instead of obj.errors.join('\n'), and in the fetch    *)
(* options, which the model does not hold.                                 *)
(***************************************************************************)
EXTENDS Integers, Sequences, FiniteSets, TLC

VARIABLES
    pc,             \* "idle", "readCountLong" (the scan loop runs) or "done"
    op,             \* the operation called last
    settings,       \* readCountLong: [interval, deadInterval]
    startTime,      \* readCountLong: the value new Date().getTime() returned
    request,        \* the request record the operation works on
    requestBefore,  \* the caller's request record as it was when the call began
    currentTime,    \* readCountLong local
    nonZeroTime,    \* readCountLong local
    totalCount,     \* readCountLong local
    windows,        \* readCountLong: the windows queried so far, in order
    log,            \* the HTTP requests the operation has issued, in order
    reply,          \* the last reply a fetch received
    outcome,        \* "none" (running or never called), "returned", "threw"
    error,          \* the value thrown
    result,         \* the value returned
    points          \* the server: timestamps that hold a data point

vars == <<pc, op, settings, startTime, request, requestBefore, currentTime,
          nonZeroTime, totalCount, windows, log, reply, outcome, error,
          result, points>>

----------------------------------------------------------------------------
(* Bounds of the model. *)

MaxNow == 5
MaxInterval == 3
MaxDead == 3

Times == 0..MaxNow
Nows == 1..MaxNow
Intervals == (-1)..MaxInterval
DeadIntervals == (-1)..MaxDead

----------------------------------------------------------------------------
(* Program constants and the data model. *)

allYears == 999999
NoContent == 204

Statuses == {200, 204, 404, 500}
Bodies == {"", "not found", "oops"}

CountAggregator ==
    [name |-> "count", align_sampling |-> TRUE,
     sampling |-> [value |-> ToString(allYears), unit |-> "years"]]

OtherAggregator ==
    [name |-> "sum", align_sampling |-> FALSE,
     sampling |-> [value |-> "1", unit |-> "hours"]]

\* aggregators of a metric: a sequence of aggregators; <<>> stands for a
\* metric whose aggregators were never set.
KairosRequestMetric(metricName, aggregators) ==
    [name |-> metricName, aggregators |-> aggregators]

\* end_absolute = -1 stands for an end_absolute that is not set.
KairosRequest(start, end, metrics) ==
    [cache_time |-> 0, start_absolute |-> start, end_absolute |-> end,
     metrics |-> metrics]

NoEnd == 0 - 1

createSimpleRequest(metricName) ==
    KairosRequest(1, NoEnd, <<KairosRequestMetric(metricName, <<>>)>>)

NoRequest == KairosRequest(0, NoEnd, <<>>)

\* Endpoints, relative to apiUrl.
MetricNamesUrl == "/metricnames"
queryUrl == "/datapoints/query"
TagsUrl == queryUrl \o "/tags"
\* A read that posts to the ingest endpoint.
readUrlIngest == "/datapoints"
\* read builds its url itself: this.apiUrl + "/datapoints/query"
readUrl == "/datapoints/query"
WriteUrl == "/datapoints"
DeleteUrl == "/datapoints/delete"
MetricUrl == "/metric/<name>"

NoSettings == [interval |-> 0, deadInterval |-> 0]

Http(method, path) == [method |-> method, path |-> path]

----------------------------------------------------------------------------
(* The server's replies. *)

NoErrors == [present |-> FALSE, msgs |-> <<>>]
Errors(msgs) == [present |-> TRUE, msgs |-> msgs]

ErrorLists == {NoErrors, Errors(<<>>), Errors(<<"e1">>), Errors(<<"e1", "e2">>)}

\* The number of stored points the request's time range covers.
CountIn(req) ==
    Cardinality({p \in points :
        /\ req.start_absolute <= p
        /\ (req.end_absolute = NoEnd \/ p <= req.end_absolute)})

KairosResult(n) == [tags |-> "host", values |-> <<<<0, n>>>>]

\* The shapes of queries a decoded response can have for a request.
QueryShapes(req) ==
    LET n == CountIn(req) IN
    { <<>>,
      <<[sample_size |-> n, results |-> <<KairosResult(n)>>]>>,
      <<[sample_size |-> n, results |-> <<>>]>> }

NoObject == [errors |-> NoErrors, queries |-> <<>>, results |-> ""]

\* net: "ok" or "fail" (fetch rejects); json: whether the body decodes.
Reply(net, status, body, json, obj) ==
    [net |-> net, status |-> status, body |-> body, json |-> json, obj |-> obj]

NoReply == Reply("none", 0, "", FALSE, NoObject)
TransportFailure == Reply("fail", 0, "", FALSE, NoObject)

QueryReplies(req) ==
    {TransportFailure, Reply("ok", 200, "", FALSE, NoObject)}
    \cup { Reply("ok", 200, "", TRUE,
                 [errors |-> e, queries |-> q, results |-> ""]) :
           e \in ErrorLists, q \in QueryShapes(req) }

NamesReplies ==
    {TransportFailure, Reply("ok", 200, "", FALSE, NoObject),
     Reply("ok", 200, "", TRUE,
           [errors |-> NoErrors, queries |-> <<>>, results |-> "m,n"])}

StatusReplies ==
    {TransportFailure}
    \cup { Reply("ok", s, b, FALSE, NoObject) : s \in Statuses, b \in Bodies }

----------------------------------------------------------------------------
(* Values thrown and returned. *)

Thrown(kind, message) == [kind |-> kind, message |-> message]
NoError == Thrown("none", "")
TransportError == Thrown("TransportError", "")
DecodeError == Thrown("DecodeError", "")
TypeError == Thrown("TypeError", "")
IntervalError == Thrown("Error", "settings.interval must be greater than 1")

\* A returned value: a number (num), a tag mapping or name list (text), a
\* decoded response (obj), an HTTP response (num is its status), or nothing.
Returned(kind, num, text, obj) ==
    [kind |-> kind, num |-> num, text |-> text, obj |-> obj]
NoResult == Returned("none", 0, "", NoObject)
Number(n) == Returned("number", n, "", NoObject)

RECURSIVE Join(_)
\* Array.prototype.join('\n')
Join(msgs) ==
    IF Len(msgs) = 0 THEN ""
    ELSE IF Len(msgs) = 1 THEN msgs[1]
    ELSE msgs[1] \o "\n" \o Join(Tail(msgs))

\* The outcome of a call: ok, and either the value or the error.
Ok(value) == [ok |-> TRUE, value |-> value, error |-> NoError]
Fail(err) == [ok |-> FALSE, value |-> NoResult, error |-> err]

\* if (obj.errors): an array, even an empty one, is truthy.
Truthy(errors) == errors.present

\* read(requestObject), given the reply its fetch received.
read(rep) ==
    IF rep.net = "fail" THEN Fail(TransportError)
    ELSE IF ~rep.json THEN Fail(DecodeError)
    ELSE IF Truthy(rep.obj.errors)
         THEN Fail(Thrown("string", Join(rep.obj.errors.msgs)))
    ELSE Ok(Returned("response", 0, "", rep.obj))

\* output.queries[0].sample_size ? output.queries[0].results[0].values[0][1] : 0
CountOf(obj) ==
    IF Len(obj.queries) = 0 THEN Fail(TypeError)
    ELSE IF obj.queries[1].sample_size # 0
         THEN IF Len(obj.queries[1].results) = 0 THEN Fail(TypeError)
              ELSE Ok(Number(obj.queries[1].results[1].values[1][2]))
    ELSE Ok(Number(0))

----------------------------------------------------------------------------

Init ==
    /\ pc = "idle"
    /\ op = "none"
    /\ settings = NoSettings
    /\ startTime = 0
    /\ request = NoRequest
    /\ requestBefore = NoRequest
    /\ currentTime = 0
    /\ nonZeroTime = 0
    /\ totalCount = 0
    /\ windows = <<>>
    /\ log = <<>>
    /\ reply = NoReply
    /\ outcome = "none"
    /\ error = NoError
    /\ result = NoResult
    /\ points \in SUBSET Times

\* The state a call starts from: nothing of the previous call is kept.
Begin(name, req) ==
    /\ pc = "idle"
    /\ op' = name
    /\ requestBefore' = req
    /\ windows' = <<>>
    /\ UNCHANGED points

\* The operation has no scan loop.
NoScan ==
    /\ pc' = "done"
    /\ settings' = NoSettings
    /\ startTime' = 0
    /\ currentTime' = 0
    /\ nonZeroTime' = 0
    /\ totalCount' = 0

\* The call ends: it returns res.value or throws res.error.
Finish(res) ==
    /\ outcome' = IF res.ok THEN "returned" ELSE "threw"
    /\ error' = res.error
    /\ result' = res.value

\* One fetch: the request is issued and the server's reply received.
Fetch(method, path, rep) ==
    /\ log' = Append(log, Http(method, path))
    /\ reply' = rep

----------------------------------------------------------------------------
(* The read-only client. *)

getMetricNamesResult(rep) ==
    IF rep.net = "fail" THEN Fail(TransportError)
    ELSE IF ~rep.json THEN Fail(DecodeError)
    ELSE Ok(Returned("names", 0, rep.obj.results, NoObject))

getMetricNames ==
    /\ Begin("getMetricNames", NoRequest)
    /\ request' = NoRequest
    /\ \E rep \in NamesReplies :
        /\ log' = <<Http("GET", MetricNamesUrl)>>
        /\ reply' = rep
        /\ Finish(getMetricNamesResult(rep))
    /\ NoScan

\* responseObject.queries[0].results[0].tags
getMetricTagsResult(rep) ==
    IF rep.net = "fail" THEN Fail(TransportError)
    ELSE IF ~rep.json THEN Fail(DecodeError)
    ELSE IF Len(rep.obj.queries) = 0 THEN Fail(TypeError)
    ELSE IF Len(rep.obj.queries[1].results) = 0 THEN Fail(TypeError)
    ELSE Ok(Returned("tags", 0, rep.obj.queries[1].results[1].tags, NoObject))

TagsRequest(metricName) ==
    KairosRequest(0, NoEnd, <<KairosRequestMetric(metricName, <<>>)>>)

getMetricTags ==
    /\ Begin("getMetricTags", NoRequest)
    /\ request' = TagsRequest("m")
    /\ \E rep \in QueryReplies(TagsRequest("m")) :
        /\ log' = <<Http("POST", TagsUrl)>>
        /\ reply' = rep
        /\ Finish(getMetricTagsResult(rep))
    /\ NoScan

\* The request records a caller passes to read and readCount.
CallerRequests ==
    { createSimpleRequest("m"),
      KairosRequest(0, 3, <<KairosRequestMetric("m", <<OtherAggregator>>),
                            KairosRequestMetric("n", <<>>)>>),
      KairosRequest(2, NoEnd, <<KairosRequestMetric("m", <<CountAggregator>>)>>) }

Read ==
    /\ \E req \in CallerRequests :
        /\ Begin("read", req)
        /\ request' = req
        /\ \E rep \in QueryReplies(req) :
            /\ log' = <<Http("POST", readUrl)>>
            /\ reply' = rep
            /\ Finish(read(rep))
    /\ NoScan

CreateSimpleRequest ==
    /\ Begin("createSimpleRequest", NoRequest)
    /\ request' = createSimpleRequest("m")
    /\ log' = <<>>
    /\ reply' = NoReply
    /\ Finish(Ok(Returned("request", 0, "", NoObject)))
    /\ NoScan

\* request.metrics.forEach(m => m.aggregators = [count aggregator])
AttachCount(req) ==
    [req EXCEPT !.metrics =
        [i \in DOMAIN req.metrics |->
            [req.metrics[i] EXCEPT !.aggregators = <<CountAggregator>>]]]

\* A count that takes a window whose read threw as empty.
readCountResultSkip(rep) ==
    LET output == read(rep) IN
    IF output.ok THEN CountOf(output.value.obj) ELSE Ok(Number(0))

\* The value readCount and each window of readCountLong make of a reply.
readCountResult(rep) ==
    LET output == read(rep) IN
    IF output.ok THEN CountOf(output.value.obj) ELSE output

\* request is the record the caller passed: it is the caller's object.
readCount ==
    /\ \E req \in CallerRequests :
        /\ Begin("readCount", req)
        /\ request' = AttachCount(req)
        /\ \E rep \in QueryReplies(AttachCount(req)) :
            /\ log' = <<Http("POST", readUrl)>>
            /\ reply' = rep
            /\ Finish(readCountResult(rep))
    /\ NoScan

----------------------------------------------------------------------------
(* readCountLong. *)

\* A guard that lets interval = 1 through.
IntervalValidFromOne(interval) == interval >= 1

\* !(settings.interval > 1) throws
IntervalValid(interval) == interval > 1

Abs(x) == IF x < 0 THEN 0 - x ELSE x

\* A loop that stops one window early: < in place of <=.
LoopConditionStrict(t, nz, deadInterval) ==
    0 < t /\ Abs(t - nz) < deadInterval

\* while (0 < currentTime && Math.abs(currentTime - nonZeroTime) <= deadInterval)
LoopCondition(t, nz, deadInterval) ==
    0 < t /\ Abs(t - nz) <= deadInterval

\* start_absolute = currentTime - interval + 1, raised to 0 when negative
WindowStart(t, interval) ==
    IF t - interval + 1 < 0 THEN 0 ELSE t - interval + 1

\* if (currentCount > 0) nonZeroTime = currentTime
NextNonZeroTime(nz, t, currentCount) ==
    IF currentCount > 0 THEN t ELSE nz

\* A total that keeps the last window's count only: = in place of +=.
AccumulateLast(total, currentCount) == currentCount

\* totalCount += currentCount
Accumulate(total, currentCount) == total + currentCount

\* A step that is one millisecond short.
NextTimeShort(t, interval) == t - interval + 1

\* currentTime -= settings.interval
NextTime(t, interval) == t - interval

\* The request of the window that ends at t.
WindowRequest(req, t, interval) ==
    [req EXCEPT !.end_absolute = t, !.start_absolute = WindowStart(t, interval)]

Window(req, rep, count) ==
    [end |-> req.end_absolute, start |-> req.start_absolute, reply |-> rep,
     count |-> count]

readCountLongCall ==
    \E interval \in Intervals, deadInterval \in DeadIntervals, now \in Nows :
        /\ Begin("readCountLong", NoRequest)
        /\ settings' = [interval |-> interval, deadInterval |-> deadInterval]
        /\ startTime' = now
        /\ log' = <<>>
        /\ reply' = NoReply
        /\ totalCount' = 0
        /\ IF ~IntervalValid(interval)
           THEN /\ Finish(Fail(IntervalError))
                /\ pc' = "done"
                /\ request' = NoRequest
                /\ currentTime' = 0
                /\ nonZeroTime' = 0
           ELSE /\ request' = AttachCount(createSimpleRequest("m"))
                /\ currentTime' = now
                /\ nonZeroTime' = now
                /\ pc' = "readCountLong"
                /\ outcome' = "none"
                /\ error' = NoError
                /\ result' = NoResult

\* One iteration of the loop; a read that throws ends the call.
readCountLongWindow(rep) ==
    LET req == WindowRequest(request, currentTime, settings.interval)
        currentCount == readCountResult(rep)
    IN  /\ request' = req
        /\ Fetch("POST", readUrl, rep)
        /\ IF currentCount.ok
           THEN /\ windows' = Append(windows, Window(req, rep, currentCount.value.num))
                /\ nonZeroTime' =
                       NextNonZeroTime(nonZeroTime, currentTime, currentCount.value.num)
                /\ totalCount' = Accumulate(totalCount, currentCount.value.num)
                /\ currentTime' = NextTime(currentTime, settings.interval)
                /\ UNCHANGED <<pc, outcome, error, result>>
           ELSE /\ windows' = Append(windows, Window(req, rep, 0))
                /\ Finish(currentCount)
                /\ pc' = "done"
                /\ UNCHANGED <<nonZeroTime, totalCount, currentTime>>

readCountLongIterate ==
    /\ pc = "readCountLong"
    /\ LoopCondition(currentTime, nonZeroTime, settings.deadInterval)
    /\ \E rep \in QueryReplies(WindowRequest(request, currentTime, settings.interval)) :
        readCountLongWindow(rep)
    /\ UNCHANGED <<op, settings, startTime, requestBefore, points>>

readCountLongReturn ==
    /\ pc = "readCountLong"
    /\ ~LoopCondition(currentTime, nonZeroTime, settings.deadInterval)
    /\ Finish(Ok(Number(totalCount)))
    /\ pc' = "done"
    /\ UNCHANGED <<op, settings, startTime, request, requestBefore, currentTime,
                   nonZeroTime, totalCount, windows, log, reply, points>>

----------------------------------------------------------------------------
(* The read-write client. *)

\* A check that accepts every 2xx status.
StatusOkAny2xx(status) == status >= 200 /\ status < 300

\* response.status != 204 throws
StatusOk(status) == status = NoContent

\* A mutating call, given the reply its one fetch received; returnsResponse
\* tells whether the method returns the response (write returns nothing).
MutateResult(rep, returnsResponse) ==
    IF rep.net = "fail" THEN Fail(TransportError)
    ELSE IF ~StatusOk(rep.status) THEN Fail(Thrown("Error", rep.body))
    ELSE IF returnsResponse THEN Ok(Returned("httpResponse", rep.status, "", NoObject))
    ELSE Ok(Returned("undefined", 0, "", NoObject))

Mutate(name, req, method, path, returnsResponse) ==
    /\ Begin(name, req)
    /\ request' = req
    /\ \E rep \in StatusReplies :
        /\ log' = <<Http(method, path)>>
        /\ reply' = rep
        /\ Finish(MutateResult(rep, returnsResponse))
    /\ NoScan

deleteMetric == Mutate("deleteMetric", NoRequest, "DELETE", MetricUrl, TRUE)

write == Mutate("write", NoRequest, "POST", WriteUrl, FALSE)

delete ==
    \E req \in CallerRequests : Mutate("delete", req, "POST", DeleteUrl, TRUE)

----------------------------------------------------------------------------

\* The client keeps nothing of a finished call: its records are call-local
\* and the next call starts from the client as constructed.
Discard ==
    /\ pc = "done"
    /\ pc' = "idle"
    /\ op' = "none"
    /\ settings' = NoSettings
    /\ startTime' = 0
    /\ request' = NoRequest
    /\ requestBefore' = NoRequest
    /\ currentTime' = 0
    /\ nonZeroTime' = 0
    /\ totalCount' = 0
    /\ windows' = <<>>
    /\ log' = <<>>
    /\ reply' = NoReply
    /\ outcome' = "none"
    /\ error' = NoError
    /\ result' = NoResult
    /\ UNCHANGED points

Next ==
    \/ getMetricNames
    \/ getMetricTags
    \/ Read
    \/ CreateSimpleRequest
    \/ readCount
    \/ readCountLongCall
    \/ readCountLongIterate
    \/ readCountLongReturn
    \/ deleteMetric
    \/ write
    \/ delete
    \/ Discard

Spec == Init /\ [][Next]_vars

\* The event loop resumes a call that awaits a reply or can return.
FairSpec ==
    Spec /\ WF_vars(readCountLongIterate) /\ WF_vars(readCountLongReturn)

----------------------------------------------------------------------------
(* Properties. *)

ScanCalled == op = "readCountLong" /\ settings.interval > 1

\* What the server holds in the window of length interval that ends at t.
ServerCount(t) ==
    Cardinality({p \in points : p <= t /\ t - settings.interval < p})

\* The server holds data in the two most recent windows and none before.
TwoRecentWindows ==
    /\ startTime - settings.interval > 0
    /\ ServerCount(startTime) > 0
    /\ ServerCount(startTime - settings.interval) > 0
    /\ \A p \in points : p > startTime - 2 * settings.interval

\* A reply that reports a count: it arrived, decodes, carries no errors
\* field and holds one query with one result.
ReportsCount(rep) ==
    /\ rep.net = "ok"
    /\ rep.json
    /\ ~rep.obj.errors.present
    /\ Len(rep.obj.queries) = 1
    /\ Len(rep.obj.queries[1].results) = 1

AllReportCount == \A i \in DOMAIN windows : ReportsCount(windows[i].reply)

SumOfTwoRecent ==
    ServerCount(startTime) + ServerCount(startTime - settings.interval)

C2_InvalidIntervalThrowsBeforeAnyRequest ==
    (op = "readCountLong" /\ settings.interval <= 1)
    => (/\ pc = "done"
        /\ outcome = "threw"
        /\ error = IntervalError
        /\ log = <<>>
        /\ windows = <<>>
        /\ reply = NoReply)

C2_Witness ==
    /\ op = "readCountLong" /\ settings.interval = 1
    /\ outcome = "threw" /\ log = <<>>

\* C3, as stated: read throws the joined messages exactly when the decoded
\* response carries a non-empty errors sequence, and returns the decoded
\* response when errors is absent or empty.
C3_ThrowsIffErrorsNonEmpty ==
    (op = "read" /\ pc = "done" /\ reply.net = "ok" /\ reply.json)
    => IF reply.obj.errors.present /\ Len(reply.obj.errors.msgs) > 0
       THEN outcome = "threw" /\ error.message = Join(reply.obj.errors.msgs)
       ELSE outcome = "returned" /\ result.obj = reply.obj

\* C4, as stated: after readCount the request record the caller passed is
\* as it was before the call.
C4_CallerRequestUnchanged ==
    (op = "readCount" /\ pc = "done") => request = requestBefore

MutatingOps == {"deleteMetric", "write", "delete"}

\* C5: a mutating call whose fetch got a response returns iff the status is
\* 204, throws an Error with the body text otherwise, and has issued one
\* request.
C5_SuccessIsExactly204 ==
    (op \in MutatingOps /\ pc = "done" /\ reply.net = "ok")
    => (/\ (outcome = "returned") <=> (reply.status = 204)
        /\ (reply.status # 204) =>
              (outcome = "threw" /\ error = Thrown("Error", reply.body))
        /\ Len(log) = 1)

C5_Witness ==
    /\ op = "deleteMetric" /\ pc = "done"
    /\ reply.status = 404 /\ reply.body = "not found"
    /\ outcome = "threw" /\ error.message = "not found"

NoQueryOrNoResult(obj) ==
    IF Len(obj.queries) = 0 THEN TRUE ELSE Len(obj.queries[1].results) = 0

\* C6, as stated: getMetricTags, given a decoded response with no queries
\* or a first query with no results, throws a MalformedResponse error.
C6_EmptyResponseIsMalformedResponse ==
    (op = "getMetricTags" /\ pc = "done" /\ reply.net = "ok" /\ reply.json
        /\ NoQueryOrNoResult(reply.obj))
    => (outcome = "threw" /\ error.kind = "MalformedResponse")

ReadOnlyOps ==
    {"getMetricNames", "getMetricTags", "read", "createSimpleRequest",
     "readCount", "readCountLong"}

ReadOnlyRequests ==
    { [method |-> "GET", path |-> "/metricnames"],
      [method |-> "POST", path |-> "/datapoints/query/tags"],
      [method |-> "POST", path |-> "/datapoints/query"] }

\* C7: every request an operation of the read-only client issues is one of
\* the three read requests.
C7_ReadOnlyClientIssuesReadRequestsOnly ==
    (op \in ReadOnlyOps) => \A i \in DOMAIN log : log[i] \in ReadOnlyRequests

C7_Witness ==
    /\ op = "readCountLong" /\ pc = "done" /\ Len(log) >= 3
    /\ \A i \in DOMAIN log : log[i].path = "/datapoints/query"

\* The read of a window fails: transport, decode or query error.
ReadFails(rep) ==
    \/ rep.net = "fail"
    \/ ~rep.json
    \/ rep.obj.errors.present /\ Len(rep.obj.errors.msgs) > 0

ErrorOf(rep) ==
    IF rep.net = "fail" THEN TransportError
    ELSE IF ~rep.json THEN DecodeError
    ELSE Thrown("string", Join(rep.obj.errors.msgs))

\* C8: in readCountLong a window whose read fails is the last window
\* queried; the call has thrown that error and returned no total; no window
\* is queried twice.
C8_WindowFailureAbortsScan ==
    ScanCalled =>
        /\ \A i \in DOMAIN windows :
              ReadFails(windows[i].reply) =>
                  /\ i = Len(windows)
                  /\ pc = "done"
                  /\ outcome = "threw"
                  /\ error = ErrorOf(windows[i].reply)
                  /\ result = NoResult
                  /\ Len(log) = Len(windows)
        /\ \A i, j \in DOMAIN windows :
              i < j => windows[i].end # windows[j].end

C8_Witness ==
    /\ ScanCalled /\ pc = "done" /\ outcome = "threw"
    /\ Len(windows) >= 2
    /\ windows[Len(windows)].reply.net = "fail"
    /\ totalCount > 0
    /\ result = NoResult

\* The windows of a scan step down from the start time by interval, one
\* read each, and there are at most ceil(startTime / interval) of them.
ScanIsBounded ==
    ScanCalled =>
        /\ \A i \in DOMAIN windows :
              windows[i].end = startTime - (i - 1) * settings.interval
        /\ Len(log) = Len(windows)
        /\ Len(windows) * settings.interval < startTime + settings.interval
        /\ (pc = "readCountLong") =>
              currentTime = startTime - Len(windows) * settings.interval

\* C9: readCountLong terminates; currentTime decreases by interval with
\* each window, windows are read one at a time in that order, and there
\* are at most ceil(startTime / interval) reads.
C9_ScanTerminates ==
    /\ []ScanIsBounded
    /\ [][(pc = "readCountLong" /\ pc' = "readCountLong")
            => (/\ currentTime' = currentTime - settings.interval
                /\ Len(log') = Len(log) + 1)]_vars
    /\ (pc = "readCountLong") ~> (pc = "done")

C9_Witness ==
    /\ ScanCalled /\ pc = "done" /\ outcome = "returned"
    /\ Len(windows) >= 3
    /\ \A i \in DOMAIN windows : windows[i].count > 0
    /\ currentTime <= 0

\* The end time of the last of the first k windows that had a non-zero
\* count, or the scan's start time when none had.
LastNonZeroEnd(k) ==
    LET S == {i \in 1..k : windows[i].count > 0} IN
    IF S = {} THEN startTime
    ELSE windows[CHOOSE i \in S : \A j \in S : j <= i].end

\* C10: a window is queried only if it ends after 0 and at most deadInterval
\* from the last non-zero window before it (or from the start time), and
\* when the scan returns with currentTime > 0 that distance exceeds
\* deadInterval.
C10_DeadIntervalStopsScan ==
    ScanCalled =>
        /\ \A i \in DOMAIN windows :
              /\ windows[i].end > 0
              /\ Abs(windows[i].end - LastNonZeroEnd(i - 1))
                    <= settings.deadInterval
        /\ (pc = "done" /\ outcome = "returned" /\ currentTime > 0) =>
              Abs(currentTime - LastNonZeroEnd(Len(windows)))
                > settings.deadInterval

C10_Witness ==
    /\ ScanCalled /\ pc = "done" /\ outcome = "returned"
    /\ currentTime > 0
    /\ Len(windows) >= 2
    /\ windows[1].count > 0
    /\ windows[Len(windows)].count = 0

====
